---- MODULE Spec2Model ----
(***************************************************************************)
(* Model of the election-voting state machine of mieuxvoter-backend:       *)
(* the Django views of src/election/views.py (election creation, election  *)
(* details, vote submission, results) running as concurrent request        *)
(* handlers over one database (tables Election, Token, Vote) in Django's   *)
(* default autocommit mode: every ORM call is one atomic database step,    *)
(* and nothing groups the calls of one handler into a transaction.         *)
(* Beside them: the election lookup and the election creation of           *)
(* src/app/crud.py over the tables Election, Candidate and Grade of the    *)
(* SQLAlchemy session, and the tally of ResultAPIView.get over one         *)
(* election's votes.                                                       *)
(***************************************************************************)
EXTENDS Integers, Sequences, FiniteSets, TLC

\* ---------------------------------------------------------------- bounds
MaxVotes == 2           \* rows of the Vote table in one run
MaxClock == 3           \* the wall clock stops here, in half seconds
MaxAppElections == 2    \* rows of the Election table of crud.py in one run
MaxBallots == 2         \* votes of the election whose result is computed

\* ---------------------------------------------------------------- inputs
Workers == {1, 2}                       \* concurrent vote handlers
ElectionIds == {1, 2}                   \* primary keys of the Election table
ElectorCounts == {1}                    \* len(elector_emails) of a create request
TokenInputs == {0, 1, 2}                \* "token" of a vote request, 0: none supplied
StartTimes == {1}                       \* start_at of created elections
FinishTimes == {2}                      \* finish_at of created elections
CandidateCounts == {1}                  \* len(election.candidates)
GradeCounts == {2}                      \* election.num_grades
GradeVectors == {<<0>>, <<1>>, <<2>>, <<0, 1>>}   \* submitted grades_by_candidate

\* Error codes and statuses of views.py
UNKNOWN_ELECTION_ERROR == "E1: Unknown election"
ONGOING_ELECTION_ERROR == "E2: Ongoing election"
NO_VOTE_ERROR == "E3: No recorded vote"
ELECTION_NOT_STARTED_ERROR == "E4: Election not started"
ELECTION_FINISHED_ERROR == "E5: Election finished"
INVITATION_ONLY_ERROR == "E6: Election on invitation only, please provide token"
UNKNOWN_TOKEN_ERROR == "E7: Wrong token"
USED_TOKEN_ERROR == "E8: Token already used"
WRONG_ELECTION_ERROR == "E9: Parameters for the election are incorrect"
HTTP_201_CREATED == "201 Created"
HTTP_200_OK == "200 OK"
ValidationError == "400 ValidationError"   \* serializer.is_valid(raise_exception=True)
NoResponse == "none"
Pass == "pass"                             \* a gate that lets the request through

NoToken == 0                               \* validated_data has no "token" key
NoRequest == [election |-> 0, token |-> NoToken, grades |-> <<>>]

\* crud.py
Identifiers == {1, 2, 3}                   \* election_id of get_election, ref of a created election
AppCandidateCounts == {1, 2}               \* len(election.candidates) of create_election
AppGradeCounts == {2}                      \* len(election.grades) of create_election
NotFoundError == "NotFoundError"
InconsistentDatabaseError == "InconsistentDatabaseError"
Found == "found"
NoRow == [id |-> 0, ref |-> 0]
NoCreation == [id |-> 0, candidates |-> 0, grades |-> 0]
NoLookup == [election_id |-> 0, status |-> NoResponse, row |-> NoRow]

\* the election whose result is computed
NumCandidates == 3                         \* len(election.candidates)
NumGrades == 3                             \* election.num_grades
CandidateIndexes == 1..NumCandidates       \* idx of the code, from 1
Grades == 0..(NumGrades - 1)               \* range(election.num_grades)

VARIABLES
    clock,      \* time(), in half seconds
    elections,  \* table Election: sequence of rows, the index is the primary key
    tokens,     \* table Token: sequence of rows [election, used], the index is the id
    votes,      \* table Vote: sequence of rows [election, grades_by_candidate]
    pc,         \* position of each vote handler
    req,        \* serializer.validated_data of the request each vote handler serves
    response,  \* the last response returned, with its request
    appElections,   \* crud.py, table Election: set of rows [id, ref]
    appCandidates,  \* crud.py, table Candidate: set of rows [election_id, pos]
    appGrades,      \* crud.py, table Grade: set of rows [election_id, pos]
    creating,       \* create_election in flight: the uncommitted rest of its request
    lookup,         \* the outcome of the last get_election
    ballots,        \* the votes of the election whose result is requested
    raised,         \* the same votes with one grade of one candidate raised
    ranking,        \* the candidates of the result computed from ballots
    rankingRaised   \* the candidates of the result computed from raised

viewVars == <<clock, elections, tokens, votes, pc, req, response>>
crudVars == <<appElections, appCandidates, appGrades, creating, lookup>>
tallyVars == <<ballots, raised, ranking, rankingRaised>>
vars == <<viewVars, crudVars, tallyVars>>

\* ------------------------------------------------------- pure functions

\* round(time()): Python 3 rounds half to even; h is the time in half seconds.
Round(h) ==
    IF h % 2 = 0 THEN h \div 2
    ELSE IF (h \div 2) % 2 = 0 THEN h \div 2 ELSE (h \div 2) + 1

Now == Round(clock)

\* faulty variant: the election is still open at finish_at itself
ElectionFinishedStrict(now, election) == now > election.finish_at
\* round(time()) >= election.finish_at
ElectionFinished(now, election) == now >= election.finish_at

\* round(time()) < election.start_at
ElectionNotStarted(now, election) == now < election.start_at

\* faulty variant: restrict_results is not consulted
ResultsRestrictedAlways(now, election) == now < election.finish_at
\* election.restrict_results and round(time()) < election.finish_at
ResultsRestricted(now, election) ==
    election.restrict_results /\ now < election.finish_at

\* faulty variant: the lookup is not scoped to the election
TokenGetAnyElection(tks, e, tok) == {t \in DOMAIN tks : t = tok}
\* Token.objects.get(election=election, id=token): the matching rows
TokenGet(tks, e, tok) ==
    {t \in DOMAIN tks : t = tok /\ tks[t].election = e}

\* faulty variant: the gate also runs when the election is not invitation-only
TokenGateAlways(election, e, tok, tks) ==
    IF tok = NoToken THEN INVITATION_ONLY_ERROR
    ELSE IF TokenGet(tks, e, tok) = {} THEN UNKNOWN_TOKEN_ERROR
    ELSE IF tks[tok].used THEN USED_TOKEN_ERROR
    ELSE Pass
\* The invitation gate of VoteAPIView.create, up to the check of the used flag:
\* the error it returns, or Pass.
TokenGate(election, e, tok, tks) ==
    IF ~election.on_invitation_only THEN Pass
    ELSE IF tok = NoToken THEN INVITATION_ONLY_ERROR
    ELSE IF TokenGet(tks, e, tok) = {} THEN UNKNOWN_TOKEN_ERROR
    ELSE IF tks[tok].used THEN USED_TOKEN_ERROR
    ELSE Pass

\* faulty variant: the update is not limited to the row of the token
SaveTokenAll(tks, t) == [u \in DOMAIN tks |-> [tks[u] EXCEPT !.used = TRUE]]
\* token_object.used = True; token_object.save()
SaveToken(tks, t) == [tks EXCEPT ![t].used = TRUE]

\* The vote validator behind perform_create (its code is not part of the
\* sources at hand): exactly one grade per candidate, each in [0, G-1].
ValidVote(election, grades) ==
    /\ Len(grades) = election.num_candidates
    /\ \A i \in 1..Len(grades) : grades[i] >= 0 /\ grades[i] <= election.num_grades - 1

\* faulty variant: the row is inserted without validation
PerformCreateUnchecked(vts, election, e, grades) ==
    Append(vts, [election |-> e, grades_by_candidate |-> grades])
\* faulty variant: the vote replaces the votes the election already has
PerformCreateUpsert(vts, election, e, grades) ==
    IF ~ValidVote(election, grades) THEN vts
    ELSE IF \E i \in DOMAIN vts : vts[i].election = e
    THEN [i \in DOMAIN vts |-> IF vts[i].election = e
                               THEN [election |-> e, grades_by_candidate |-> grades]
                               ELSE vts[i]]
    ELSE Append(vts, [election |-> e, grades_by_candidate |-> grades])
\* self.perform_create(serializer) under try/except IntegrityError: the Vote
\* table afterwards (unchanged when the validator raises IntegrityError).
PerformCreate(vts, election, e, grades) ==
    IF ValidVote(election, grades)
    THEN Append(vts, [election |-> e, grades_by_candidate |-> grades])
    ELSE vts

\* Vote.objects.filter(election=election)
VotesOf(vts, e) == SelectSeq(vts, LAMBDA v : v.election = e)

\* faulty variant: the votes are counted before the window is checked
ResultResponseNoVoteFirst(now, election, n) ==
    IF n = 0 THEN NO_VOTE_ERROR
    ELSE IF ResultsRestricted(now, election) THEN ONGOING_ELECTION_ERROR
    ELSE HTTP_200_OK
\* ResultAPIView.get after the election lookup
ResultResponse(now, election, n) ==
    IF ResultsRestricted(now, election) THEN ONGOING_ELECTION_ERROR
    ELSE IF n = 0 THEN NO_VOTE_ERROR
    ELSE HTTP_200_OK

\* faulty variant: the start of the election is not checked
DetailsResponseUnguarded(now, election) == HTTP_200_OK
\* ElectionDetailsAPIView.get after the election lookup
DetailsResponse(now, election) ==
    IF ElectionNotStarted(now, election) THEN ELECTION_NOT_STARTED_ERROR
    ELSE HTTP_200_OK

\* The election rows a create request can insert
ElectionConfigs ==
    {cfg \in [start_at : StartTimes, finish_at : FinishTimes,
              on_invitation_only : BOOLEAN, restrict_results : BOOLEAN,
              num_candidates : CandidateCounts, num_grades : GradeCounts] :
        cfg.start_at < cfg.finish_at}

RECURSIVE NewTokens(_, _)
NewTokens(e, n) ==
    IF n = 0 THEN <<>> ELSE Append(NewTokens(e, n - 1), [election |-> e, used |-> FALSE])

\* ---------------------------------------------------------------- state

\* the tables of crud.py empty, no creation in flight, no lookup made
CrudIdle ==
    /\ appElections = {}
    /\ appCandidates = {}
    /\ appGrades = {}
    /\ creating = NoCreation
    /\ lookup = NoLookup

\* no result computed
TallyIdle ==
    /\ ballots = <<>>
    /\ raised = <<>>
    /\ ranking = <<>>
    /\ rankingRaised = <<>>

\* the tables of views.py empty, the vote handlers idle
ViewsIdle ==
    /\ clock = 0
    /\ elections = <<>>
    /\ tokens = <<>>
    /\ votes = <<>>
    /\ pc = [p \in Workers |-> "idle"]
    /\ req = [p \in Workers |-> NoRequest]
    /\ response = [kind |-> "none", request |-> NoRequest, code |-> NoResponse]

Init == ViewsIdle /\ CrudIdle /\ TallyIdle

\* time passes
Tick ==
    /\ clock < MaxClock
    /\ clock' = clock + 1
    /\ UNCHANGED <<elections, tokens, votes, pc, req, response>>
    /\ UNCHANGED <<crudVars, tallyVars>>

\* ElectionCreateAPIView.create: the election row, then one token per elector
ElectionCreate(cfg, n) ==
    /\ Len(elections) + 1 \in ElectionIds
    /\ elections' = Append(elections, cfg)
    /\ tokens' = tokens \o NewTokens(Len(elections) + 1, n)
    /\ UNCHANGED <<clock, votes, pc, req, response>>
    /\ UNCHANGED <<crudVars, tallyVars>>

ViewRequest(e) == [election |-> e, token |-> NoToken, grades |-> <<>>]

\* ElectionDetailsAPIView.get
ElectionDetails(e) ==
    /\ response' = [kind |-> "details", request |-> ViewRequest(e), code |->
                     IF e \notin DOMAIN elections THEN UNKNOWN_ELECTION_ERROR
                     ELSE DetailsResponse(Now, elections[e])]
    /\ UNCHANGED <<clock, elections, tokens, votes, pc, req>>
    /\ UNCHANGED <<crudVars, tallyVars>>

\* faulty variant: the votes read for the tally are taken out of the table
ResultConsumingVotes(e) ==
    /\ response' = [kind |-> "result", request |-> ViewRequest(e), code |->
                     IF e \notin DOMAIN elections THEN UNKNOWN_ELECTION_ERROR
                     ELSE ResultResponse(Now, elections[e], Len(VotesOf(votes, e)))]
    /\ votes' = SelectSeq(votes, LAMBDA v : v.election # e)
    /\ UNCHANGED <<clock, elections, tokens, pc, req>>
    /\ UNCHANGED <<crudVars, tallyVars>>

\* ResultAPIView.get
Result(e) ==
    /\ response' = [kind |-> "result", request |-> ViewRequest(e), code |->
                     IF e \notin DOMAIN elections THEN UNKNOWN_ELECTION_ERROR
                     ELSE ResultResponse(Now, elections[e], Len(VotesOf(votes, e)))]
    /\ UNCHANGED <<clock, elections, tokens, votes, pc, req>>
    /\ UNCHANGED <<crudVars, tallyVars>>

\* VoteAPIView.create, from the start of the handler to the read of the token
\* row: serializer validation, the finish_at check, the invitation gate. A
\* request that passes goes on to save the token (invitation only) or to
\* perform_create.
VoteBegin(p, e, tok, g) ==
    /\ pc[p] = "idle"
    /\ Len(votes) < MaxVotes
    /\ LET r == [election |-> e, token |-> tok, grades |-> g]
           Reject(code) ==
               /\ response' = [kind |-> "vote", request |-> r, code |-> code]
               /\ UNCHANGED <<pc, req>>
       IN IF e \notin DOMAIN elections THEN Reject(ValidationError)
          ELSE IF ElectionFinished(Now, elections[e]) THEN Reject(ELECTION_FINISHED_ERROR)
          ELSE IF TokenGate(elections[e], e, tok, tokens) # Pass
          THEN Reject(TokenGate(elections[e], e, tok, tokens))
          ELSE /\ pc' = [pc EXCEPT ![p] =
                            IF elections[e].on_invitation_only THEN "save" ELSE "create"]
               /\ req' = [req EXCEPT ![p] = r]
               /\ UNCHANGED response
    /\ UNCHANGED <<clock, elections, tokens, votes>>
    /\ UNCHANGED <<crudVars, tallyVars>>

\* VoteAPIView.create: token_object.used = True; token_object.save()
VoteSaveToken(p) ==
    /\ pc[p] = "save"
    /\ tokens' = SaveToken(tokens, req[p].token)
    /\ pc' = [pc EXCEPT ![p] = "create"]
    /\ UNCHANGED <<clock, elections, votes, req, response>>
    /\ UNCHANGED <<crudVars, tallyVars>>

\* VoteAPIView.create: perform_create, the IntegrityError handler, the response
VoteCreate(p) ==
    /\ pc[p] = "create"
    /\ votes' = PerformCreate(votes, elections[req[p].election], req[p].election, req[p].grades)
    /\ response' = [kind |-> "vote", request |-> req[p], code |->
                     IF votes' # votes THEN HTTP_201_CREATED ELSE WRONG_ELECTION_ERROR]
    /\ pc' = [pc EXCEPT ![p] = "idle"]
    /\ req' = [req EXCEPT ![p] = NoRequest]
    /\ UNCHANGED <<clock, elections, tokens>>
    /\ UNCHANGED <<crudVars, tallyVars>>

\* Requests served by one vote handler at a time; creations, details and
\* result requests and the clock run beside it.
Next ==
    \/ Tick
    \/ \E cfg \in ElectionConfigs, n \in ElectorCounts : ElectionCreate(cfg, n)
    \/ \E e \in ElectionIds : ElectionDetails(e)
    \/ \E e \in ElectionIds : Result(e)
    \/ \E e \in ElectionIds, tok \in TokenInputs, g \in GradeVectors : VoteBegin(1, e, tok, g)
    \/ VoteSaveToken(1)
    \/ VoteCreate(1)

Spec == Init /\ [][Next]_vars

\* a vote request goes to the first idle handler
Dispatch(p) == pc[p] = "idle" /\ \A q \in Workers : q < p => pc[q] # "idle"

\* Two vote handlers running concurrently on a database that holds one
\* election and the token of its one elector, from the second the election
\* opens.
InitConc ==
    /\ \E cfg \in ElectionConfigs : elections = <<cfg>> /\ clock = 2 * cfg.start_at
    /\ tokens = NewTokens(1, 1)
    /\ votes = <<>>
    /\ pc = [p \in Workers |-> "idle"]
    /\ req = [p \in Workers |-> NoRequest]
    /\ response = [kind |-> "none", request |-> NoRequest, code |-> NoResponse]
    /\ CrudIdle
    /\ TallyIdle

NextConc ==
    \/ Tick
    \/ \E p \in Workers, e \in ElectionIds, tok \in TokenInputs, g \in GradeVectors :
          Dispatch(p) /\ VoteBegin(p, e, tok, g)
    \/ \E p \in Workers : VoteSaveToken(p)
    \/ \E p \in Workers : VoteCreate(p)

SpecConc == InitConc /\ [][NextConc]_vars

\* ------------------------------------------------------ src/app/crud.py

\* the rows of a query filtered on the primary key, and on the ref
ElectionsById(rows, election_id) == {row \in rows : row.id = election_id}
ElectionsByRef(rows, election_id) == {row \in rows : row.ref = election_id}

TheRow(rows) == CHOOSE row \in rows : TRUE

get_election_id_only(rows, election_id) ==
    LET elections_by_id == ElectionsById(rows, election_id)
    IN IF Cardinality(elections_by_id) > 1
       THEN [status |-> InconsistentDatabaseError, row |-> NoRow]
       ELSE IF Cardinality(elections_by_id) = 1
       THEN [status |-> Found, row |-> TheRow(elections_by_id)]
       ELSE [status |-> NotFoundError, row |-> NoRow]

\* get_election: the query on the id, then, when it is empty, the query on
\* the ref
get_election(rows, election_id) ==
    LET elections_by_id == ElectionsById(rows, election_id)
        elections_by_ref == ElectionsByRef(rows, election_id)
    IN IF Cardinality(elections_by_id) > 1
       THEN [status |-> InconsistentDatabaseError, row |-> NoRow]
       ELSE IF Cardinality(elections_by_id) = 1
       THEN [status |-> Found, row |-> TheRow(elections_by_id)]
       ELSE IF Cardinality(elections_by_ref) > 1
       THEN [status |-> InconsistentDatabaseError, row |-> NoRow]
       ELSE IF Cardinality(elections_by_ref) = 1
       THEN [status |-> Found, row |-> TheRow(elections_by_ref)]
       ELSE [status |-> NotFoundError, row |-> NoRow]

\* the rows create_candidate and create_grade add for one election
ChildRows(election_id, n) == {[election_id |-> election_id, pos |-> i] : i \in 1..n}

\* a request handler calling get_election
GetElection(election_id) ==
    /\ lookup' = [election_id |-> election_id,
                  status |-> get_election(appElections, election_id).status,
                  row |-> get_election(appElections, election_id).row]
    /\ UNCHANGED <<appElections, appCandidates, appGrades, creating>>
    /\ UNCHANGED <<viewVars, tallyVars>>

\* create_election, to the return of
\* _create_election_without_candidates_or_grade(db, election, True): the
\* election row is added and committed
CreateElectionRow(ref, candidates, grades) ==
    /\ creating = NoCreation
    /\ Cardinality(appElections) < MaxAppElections
    /\ LET id == Cardinality(appElections) + 1
       IN /\ appElections' = appElections \cup {[id |-> id, ref |-> ref]}
          /\ creating' = [id |-> id, candidates |-> candidates, grades |-> grades]
    /\ UNCHANGED <<appCandidates, appGrades, lookup>>
    /\ UNCHANGED <<viewVars, tallyVars>>

\* create_election, the rest: the candidates and the grades are added to the
\* session and committed together
CreateElectionChildren ==
    /\ creating # NoCreation
    /\ appCandidates' = appCandidates \cup ChildRows(creating.id, creating.candidates)
    /\ appGrades' = appGrades \cup ChildRows(creating.id, creating.grades)
    /\ creating' = NoCreation
    /\ UNCHANGED <<appElections, lookup>>
    /\ UNCHANGED <<viewVars, tallyVars>>

\* create_election raises after the first commit (a candidate or a grade
\* refused, the last commit failing): the session is dropped with what it had
\* not committed
CreateElectionFail ==
    /\ creating # NoCreation
    /\ creating' = NoCreation
    /\ UNCHANGED <<appElections, appCandidates, appGrades, lookup>>
    /\ UNCHANGED <<viewVars, tallyVars>>

InitCrud == ViewsIdle /\ CrudIdle /\ TallyIdle

NextCrud ==
    \/ \E ref \in Identifiers, c \in AppCandidateCounts, g \in AppGradeCounts :
          CreateElectionRow(ref, c, g)
    \/ CreateElectionChildren
    \/ CreateElectionFail
    \/ \E election_id \in Identifiers : GetElection(election_id)

SpecCrud == InitCrud /\ [][NextCrud]_vars

\* ------------------------------------------- the tally of ResultAPIView.get

\* mj.votes_to_merit_profiles(votes, grades): for each candidate, the number
\* of votes that gave it each grade, zero counts included
votes_to_merit_profiles(vts, grades) ==
    [c \in CandidateIndexes |->
        [g \in grades |-> Cardinality({v \in DOMAIN vts : vts[v][c] = g})]]

\* the number of votes of a merit profile with a grade in gs
RECURSIVE CountIn(_, _)
CountIn(profile, gs) ==
    IF gs = {} THEN 0
    ELSE LET g == CHOOSE x \in gs : TRUE
         IN (IF g \in DOMAIN profile THEN profile[g] ELSE 0) + CountIn(profile, gs \ {g})

\* the majority grade: the lower median of the grades received
MajorityGrade(profile) ==
    LET N == CountIn(profile, DOMAIN profile)
    IN CHOOSE m \in DOMAIN profile :
          /\ 2 * CountIn(profile, {g \in DOMAIN profile : g <= m}) >= N
          /\ \A l \in DOMAIN profile :
                l < m => 2 * CountIn(profile, {g \in DOMAIN profile : g <= l}) < N

\* mj.MajorityValue(profile): the majority grade and the tie-break score
\* p - q, kept as its numerator (votes above minus votes below), the
\* denominator N being the same for all the candidates of one election
MajorityValue(profile) ==
    LET m == MajorityGrade(profile)
    IN [grade |-> m,
        score |-> CountIn(profile, {g \in DOMAIN profile : g > m})
                    - CountIn(profile, {g \in DOMAIN profile : g < m})]

\* the order of majority values: a higher majority grade, then a higher score
Better(a, b) == a.grade > b.grade \/ (a.grade = b.grade /\ a.score > b.score)

\* mj.sort_by_value_with_index(values): a stable sort, best first, of the
\* pairs (index, value)
RECURSIVE InsertByValue(_, _)
InsertByValue(sorted, item) ==
    IF sorted = <<>> THEN <<item>>
    ELSE IF Better(item[2], Head(sorted)[2]) THEN <<item>> \o sorted
    ELSE <<Head(sorted)>> \o InsertByValue(Tail(sorted), item)

RECURSIVE SortPrefix(_, _)
SortPrefix(values, n) ==
    IF n = 0 THEN <<>> ELSE InsertByValue(SortPrefix(values, n - 1), <<n, values[n]>>)

sort_by_value_with_index(values) == SortPrefix(values, Len(values))

ResultCandidatesUnsorted(vts, num_grades) ==
    LET merit_profiles == votes_to_merit_profiles(vts, 0..(num_grades - 1))
    IN [idx \in DOMAIN merit_profiles |->
          [idx |-> idx, profile |-> merit_profiles[idx],
           grade |-> MajorityValue(merit_profiles[idx]).grade]]

ResultCandidatesWorstFirst(vts, num_grades) ==
    LET merit_profiles == votes_to_merit_profiles(vts, 0..(num_grades - 1))
        indexed_values == sort_by_value_with_index(
            [c \in DOMAIN merit_profiles |-> MajorityValue(merit_profiles[c])])
        n == Len(indexed_values)
    IN [k \in DOMAIN indexed_values |->
          [idx |-> indexed_values[n + 1 - k][1],
           profile |-> merit_profiles[indexed_values[n + 1 - k][1]],
           grade |-> indexed_values[n + 1 - k][2].grade]]

ResultCandidatesGradesFromOne(vts, num_grades) ==
    LET merit_profiles == votes_to_merit_profiles(vts, 1..(num_grades - 1))
        indexed_values == sort_by_value_with_index(
            [c \in DOMAIN merit_profiles |-> MajorityValue(merit_profiles[c])])
    IN [k \in DOMAIN indexed_values |->
          [idx |-> indexed_values[k][1],
           profile |-> merit_profiles[indexed_values[k][1]],
           grade |-> indexed_values[k][2].grade]]

\* ResultAPIView.get, from the grade vectors of the votes to the candidates of
\* the response: the merit profiles, the sorted majority values, and one
\* Candidate(idx, merit_profiles[idx], value.grade) per sorted pair
ResultCandidates(vts, num_grades) ==
    LET merit_profiles == votes_to_merit_profiles(vts, 0..(num_grades - 1))
        indexed_values == sort_by_value_with_index(
            [c \in DOMAIN merit_profiles |-> MajorityValue(merit_profiles[c])])
    IN [k \in DOMAIN indexed_values |->
          [idx |-> indexed_values[k][1],
           profile |-> merit_profiles[indexed_values[k][1]],
           grade |-> indexed_values[k][2].grade]]

\* the vote collections of the election: every vote grades every candidate
\* with a grade of the election
GradeVectorsOfElection == [CandidateIndexes -> Grades]
VoteCollections == UNION {[1..n -> GradeVectorsOfElection] : n \in 1..MaxBallots}

\* a vote collection with one grade of one vote raised, or as it is
Raisings(vts) ==
    {vts} \cup
    {[vts EXCEPT ![t[1]][t[2]] = t[3]] :
        t \in {u \in (DOMAIN vts) \X CandidateIndexes \X Grades : u[3] > vts[u[1]][u[2]]}}

\* The result of one election is requested on a vote collection, and on the
\* same collection with one grade raised.
InitTally ==
    /\ ViewsIdle
    /\ CrudIdle
    /\ ballots \in VoteCollections
    /\ raised \in Raisings(ballots)
    /\ ranking = <<>>
    /\ rankingRaised = <<>>

ResultOfBallots ==
    /\ ranking = <<>>
    /\ ranking' = ResultCandidates(ballots, NumGrades)
    /\ UNCHANGED <<ballots, raised, rankingRaised>>
    /\ UNCHANGED <<viewVars, crudVars>>

ResultOfRaised ==
    /\ rankingRaised = <<>>
    /\ rankingRaised' = ResultCandidates(raised, NumGrades)
    /\ UNCHANGED <<ballots, raised, ranking>>
    /\ UNCHANGED <<viewVars, crudVars>>

NextTally ==
    \/ ResultOfBallots
    \/ ResultOfRaised

SpecTally == InitTally /\ [][NextTally]_vars



\* ---------------------------------------------------------------- claims

\* the tokens of election e whose used flag is set
UsedTokens(e) == {t \in DOMAIN tokens : tokens[t].election = e /\ tokens[t].used}

\* a grade vector that is not one grade in [0, G-1] per candidate
Malformed(election, grades) ==
    \/ Len(grades) # election.num_candidates
    \/ \E i \in 1..Len(grades) : grades[i] < 0 \/ grades[i] > election.num_grades - 1

\* token tok exists within election e
TokenOf(e, tok) == tok \in DOMAIN tokens /\ tokens[tok].election = e

\* C1: in an invitation-only election every recorded vote was authorised by
\* its own token: the election never holds more votes than used tokens, so
\* two requests presenting one unused token never both record a vote.
C1_TokenSingleUse ==
    \A e \in DOMAIN elections :
        elections[e].on_invitation_only =>
            Len(VotesOf(votes, e)) <= Cardinality(UsedTokens(e))

\* C2: once no vote request is in progress, every used token of an
\* invitation-only election has its vote recorded: a vote write that failed
\* left the token unused.
C2_UsedTokenHasVote ==
    (\A p \in Workers : pc[p] = "idle") =>
        \A e \in DOMAIN elections :
            elections[e].on_invitation_only =>
                Cardinality(UsedTokens(e)) <= Len(VotesOf(votes, e))

\* the vote requests whose handling worker p begins in this step: VoteBegin
\* leaves its request in the response (rejected) or in req'[p] (let through)
Begun(p) ==
    {r \in {response'.request, req'[p]} :
        /\ r.election \in DOMAIN elections
        /\ VoteBegin(p, r.election, r.token, r.grades)}

\* C3: a vote request that arrives before start_at is answered with
\* ElectionNotStarted and changes neither the votes nor the tokens.
C3_VoteBeforeStartRejected ==
    [][\A p \in Workers : \A r \in Begun(p) :
          Now < elections[r.election].start_at
          => /\ response' = [kind |-> "vote", request |-> r,
                             code |-> ELECTION_NOT_STARTED_ERROR]
             /\ UNCHANGED <<votes, tokens, pc, req>>]_vars

\* C4: a vote request that arrives at or after finish_at is answered with
\* ElectionFinished and changes neither the votes nor the tokens, whatever
\* token it carries.
C4_VoteAfterFinishRejected ==
    [][\A p \in Workers : \A r \in Begun(p) :
          Now >= elections[r.election].finish_at
          => /\ response' = [kind |-> "vote", request |-> r,
                             code |-> ELECTION_FINISHED_ERROR]
             /\ UNCHANGED <<votes, tokens, pc, req>>]_vars

\* C4 witness: ElectionFinished was returned to a request carrying a token
\* of its election that is still unused.
C4_Witness ==
    /\ response.kind = "vote"
    /\ response.code = ELECTION_FINISHED_ERROR
    /\ TokenOf(response.request.election, response.request.token)
    /\ ~tokens[response.request.token].used
    /\ elections[response.request.election].on_invitation_only

\* C5: with restrict_results a result request before finish_at is answered
\* with OngoingElection and one that gets past the window came at or after
\* finish_at; without restrict_results the answer is never OngoingElection,
\* before the start, while open and after the finish.
C5_ResultVisibility ==
    [][\A e \in DOMAIN elections :
          Result(e) =>
            IF elections[e].restrict_results
            THEN /\ Now < elections[e].finish_at
                      => response'.code = ONGOING_ELECTION_ERROR
                 /\ response'.code # ONGOING_ELECTION_ERROR
                      => Now >= elections[e].finish_at
            ELSE response'.code \in {NO_VOTE_ERROR, HTTP_200_OK}]_vars

\* C5 witness: a result was returned for a closed election that restricts
\* its results.
C5_Witness ==
    /\ response.kind = "result"
    /\ response.code = HTTP_200_OK
    /\ elections[response.request.election].restrict_results
    /\ Now >= elections[response.request.election].finish_at

\* C6: a result request the window lets through on an election without votes
\* is answered with NoRecordedVotes; one the window blocks is answered with
\* OngoingElection, votes or not.
C6_NoRecordedVotes ==
    [][\A e \in DOMAIN elections :
          Result(e) =>
            LET blocked == elections[e].restrict_results /\ Now < elections[e].finish_at
                n == Cardinality({i \in DOMAIN votes : votes[i].election = e})
            IN /\ blocked => response'.code = ONGOING_ELECTION_ERROR
               /\ (~blocked /\ n = 0) => response'.code = NO_VOTE_ERROR
               /\ (~blocked /\ n > 0) => response'.code = HTTP_200_OK]_vars

\* C6 witness: NoRecordedVotes was returned for a closed election that
\* restricts its results and holds no vote.
C6_Witness ==
    /\ response.kind = "result"
    /\ response.code = NO_VOTE_ERROR
    /\ elections[response.request.election].restrict_results
    /\ Now >= elections[response.request.election].finish_at
    /\ VotesOf(votes, response.request.election) = <<>>

\* C7: on an invitation-only election that has not finished, a vote request
\* without token is answered with InvitationRequired, one whose token is not
\* a token of that election with UnknownToken, one whose token is used with
\* TokenAlreadyUsed; none of the three changes the votes or the tokens.
C7_InvitationGate ==
    [][\A p \in Workers : \A r \in Begun(p) :
          (/\ elections[r.election].on_invitation_only
           /\ \/ r.token = NoToken
              \/ ~TokenOf(r.election, r.token)
              \/ tokens[r.token].used)
          => /\ UNCHANGED <<votes, tokens, pc, req>>
             /\ response'.kind = "vote"
             /\ response'.request = r
             /\ Now < elections[r.election].finish_at =>
                    response'.code =
                        IF r.token = NoToken THEN INVITATION_ONLY_ERROR
                        ELSE IF ~TokenOf(r.election, r.token) THEN UNKNOWN_TOKEN_ERROR
                        ELSE USED_TOKEN_ERROR]_vars

\* C7 witness: UnknownToken was returned to a request whose token is a token
\* of another election.
C7_Witness ==
    /\ response.kind = "vote"
    /\ response.code = UNKNOWN_TOKEN_ERROR
    /\ response.request.token \in DOMAIN tokens
    /\ tokens[response.request.token].election # response.request.election

\* C8: every recorded vote has one grade in [0, G-1] per candidate, and a
\* request with a malformed grade vector that reaches perform_create is
\* answered with MalformedVote and leaves the votes unchanged.
C8_MalformedVoteNotRecorded ==
    [][/\ \A i \in DOMAIN votes' :
             ~Malformed(elections'[votes'[i].election], votes'[i].grades_by_candidate)
       /\ \A p \in Workers :
             (VoteCreate(p) /\ Malformed(elections[req[p].election], req[p].grades))
             => /\ votes' = votes
                /\ response'.code = WRONG_ELECTION_ERROR
                /\ response'.request = req[p]]_vars

\* C8 witness: MalformedVote was returned for a vector of the wrong length
\* after another vote had been recorded.
C8_Witness ==
    /\ response.kind = "vote"
    /\ response.code = WRONG_ELECTION_ERROR
    /\ Len(response.request.grades) # elections[response.request.election].num_candidates
    /\ votes # <<>>

\* C9: on an election that is not invitation-only a vote request passes the
\* gate whatever token it carries, its acceptance depends on its grades
\* alone, and no step of it changes a token.
C9_TokenIgnored ==
    [][/\ \A p \in Workers : \A r \in Begun(p) :
             ~elections[r.election].on_invitation_only
             => /\ tokens' = tokens
                /\ Now < elections[r.election].finish_at
                     => pc'[p] = "create" /\ req'[p] = r
       /\ \A p \in Workers :
             (pc[p] # "idle" /\ pc'[p] # pc[p]
                /\ ~elections[req[p].election].on_invitation_only)
             => /\ tokens' = tokens
                /\ votes' = Append(votes, [election |-> req[p].election,
                                           grades_by_candidate |-> req[p].grades])
                     <=> ~Malformed(elections[req[p].election], req[p].grades)
                /\ response'.code = HTTP_201_CREATED
                     <=> ~Malformed(elections[req[p].election], req[p].grades)]_vars

\* C9 witness: a vote was accepted on an election that is not invitation-only
\* although it carried a used token (of another election).
C9_Witness ==
    /\ response.kind = "vote"
    /\ response.code = HTTP_201_CREATED
    /\ ~elections[response.request.election].on_invitation_only
    /\ response.request.token \in DOMAIN tokens
    /\ tokens[response.request.token].used

\* C10: every step keeps the recorded votes as a prefix of the Vote table,
\* keeps every token with its election, and keeps a set used flag set.
C10_AppendOnly ==
    [][/\ Len(votes') >= Len(votes)
       /\ \A i \in DOMAIN votes : votes'[i] = votes[i]
       /\ Len(tokens') >= Len(tokens)
       /\ \A t \in DOMAIN tokens :
             /\ tokens'[t].election = tokens[t].election
             /\ tokens[t].used => tokens'[t].used]_vars

\* C10 witness: two votes are recorded for one election and a token is used.
C10_Witness ==
    /\ Len(votes) = 2
    /\ votes[1].election = votes[2].election
    /\ \E t \in DOMAIN tokens : tokens[t].used

\* C11: a details request for an unknown election is answered with
\* UnknownElection, one before start_at with ElectionNotStarted, and one at or
\* after start_at (open or closed) with the election.
C11_DetailsWindow ==
    [][\A e \in ElectionIds :
          ElectionDetails(e) =>
            /\ response'.kind = "details"
            /\ response'.code =
                 IF e \notin DOMAIN elections THEN UNKNOWN_ELECTION_ERROR
                 ELSE IF Now < elections[e].start_at THEN ELECTION_NOT_STARTED_ERROR
                 ELSE HTTP_200_OK]_vars

\* C11 witness: ElectionNotStarted was returned to a details request for an
\* election that exists and has not started.
C11_Witness ==
    /\ response.kind = "details"
    /\ response.code = ELECTION_NOT_STARTED_ERROR
    /\ response.request.election \in DOMAIN elections
    /\ Now < elections[response.request.election].start_at

\* The rows of the Election table that match an identifier on the primary key
\* or on the ref.
Matches(election_id) ==
    ElectionsById(appElections, election_id) \cup ElectionsByRef(appElections, election_id)

\* C12: get_election fails with Inconsistent whenever more than one record
\* matches the identifier, on the primary key and the ref counted together.
C12_AmbiguityIsInconsistent ==
    [][\A election_id \in Identifiers :
          GetElection(election_id) /\ Cardinality(Matches(election_id)) > 1
            => lookup'.status = InconsistentDatabaseError]_vars

\* C13: every election record in the store has its candidates.
C13_CreationAtomic ==
    \A row \in appElections : \E c \in appCandidates : c.election_id = row.id

\* C18: get_election returns the record whose primary key equals the
\* identifier, otherwise the one record whose ref equals it; it fails with
\* NotFound exactly when no record matches on the primary key and none on the
\* ref; it never changes the stored rows.
C18_LookupResolution ==
    [][\A election_id \in Identifiers :
          GetElection(election_id) =>
            LET by_id == ElectionsById(appElections, election_id)
                by_ref == ElectionsByRef(appElections, election_id)
            IN /\ UNCHANGED <<appElections, appCandidates, appGrades>>
               /\ Cardinality(by_id) = 1 =>
                    lookup'.status = Found /\ lookup'.row \in by_id
               /\ by_id = {} /\ Cardinality(by_ref) = 1 =>
                    lookup'.status = Found /\ lookup'.row \in by_ref
               /\ lookup'.status = NotFoundError <=> by_id = {} /\ by_ref = {}]_vars

\* an election found through its ref
C18_Witness ==
    /\ lookup.status = Found
    /\ lookup.row \in appElections
    /\ lookup.row.id # lookup.election_id
    /\ lookup.row.ref = lookup.election_id

\* the majority value of a candidate of the election, from its votes
ValueOf(vts, c) == MajorityValue(votes_to_merit_profiles(vts, Grades)[c])

\* the position of a candidate in a result sequence
Position(result, c) == CHOOSE k \in DOMAIN result : result[k].idx = c

RaisedCandidates ==
    {c \in CandidateIndexes : \E v \in DOMAIN ballots : raised[v][c] > ballots[v][c]}

C16_MeritProfileConservation ==
    ranking # <<>> =>
        \A k \in DOMAIN ranking :
            /\ DOMAIN ranking[k].profile = Grades
            /\ CountIn(ranking[k].profile, Grades) = Len(ballots)

\* a result with a zero count in a merit profile
C16_Witness ==
    /\ ranking # <<>>
    /\ \E k \in DOMAIN ranking, g \in Grades : ranking[k].profile[g] = 0
    /\ Len(ballots) > 1

\* the failure of the earliest gate a vote request violates, window guard
\* first, invitation gate second, or Pass
EarliestGate(r) ==
    LET election == elections[r.election]
    IN IF Now < election.start_at THEN ELECTION_NOT_STARTED_ERROR
       ELSE IF Now >= election.finish_at THEN ELECTION_FINISHED_ERROR
       ELSE IF ~election.on_invitation_only THEN Pass
       ELSE IF r.token = NoToken THEN INVITATION_ONLY_ERROR
       ELSE IF ~TokenOf(r.election, r.token) THEN UNKNOWN_TOKEN_ERROR
       ELSE IF tokens[r.token].used THEN USED_TOKEN_ERROR
       ELSE Pass

\* the gates a vote request violates
ViolatedGates(r) ==
    LET election == elections[r.election]
    IN {g \in {"window", "token", "validator"} :
          \/ g = "window" /\ (Now < election.start_at \/ Now >= election.finish_at)
          \/ g = "token" /\ election.on_invitation_only
                /\ (r.token = NoToken \/ ~TokenOf(r.election, r.token) \/ tokens[r.token].used)
          \/ g = "validator" /\ Malformed(election, r.grades)}

\* C17: a vote request is checked by the window guard, then the invitation
\* gate, then the validator, then persisted: a request that violates several
\* gates is answered with the failure of the earliest gate it violates and
\* changes nothing; a malformed vote that reaches the validator is answered
\* with MalformedVote and is not persisted.
C17_GateOrder ==
    [][/\ \A p \in Workers : \A r \in Begun(p) :
             (Cardinality(ViolatedGates(r)) > 1 /\ EarliestGate(r) # Pass)
             => /\ response' = [kind |-> "vote", request |-> r, code |-> EarliestGate(r)]
                /\ UNCHANGED <<elections, tokens, votes, pc, req>>
       /\ \A p \in Workers :
             (VoteCreate(p) /\ Malformed(elections[req[p].election], req[p].grades))
             => /\ response'.code = WRONG_ELECTION_ERROR
                /\ votes' = votes]_vars

\* C19: a result request and a details request, answered with an error or
\* not, leave the elections, the votes and the tokens unchanged.
C19_ViewsReadOnly ==
    [][\A e \in ElectionIds :
          (Result(e) \/ ElectionDetails(e))
            => UNCHANGED <<elections, votes, tokens>>]_vars

\* a result returned for an election that has votes and a used token
C19_Witness ==
    /\ response.kind = "result"
    /\ response.code = HTTP_200_OK
    /\ VotesOf(votes, response.request.election) # <<>>
    /\ UsedTokens(response.request.election) # {}

\* C20: the step that accepts a vote appends exactly that one vote, to the
\* election the request names, and changes no token; in an invitation-only
\* election the presented token is then marked used; the step that marks a
\* token is taken only for an invitation-only election and changes the
\* presented token alone; votes and tokens of other elections stay as they
\* are.
C20_AcceptedVoteEffect ==
    [][\A p \in Workers :
          /\ (VoteCreate(p) /\ response'.code = HTTP_201_CREATED) =>
               /\ votes' = Append(votes, [election |-> req[p].election,
                                          grades_by_candidate |-> req[p].grades])
               /\ tokens' = tokens
               /\ elections' = elections
               /\ elections[req[p].election].on_invitation_only =>
                     /\ TokenOf(req[p].election, req[p].token)
                     /\ tokens[req[p].token].used
          /\ VoteSaveToken(p) =>
               /\ elections[req[p].election].on_invitation_only
               /\ TokenOf(req[p].election, req[p].token)
               /\ tokens'[req[p].token].used
               /\ \A t \in DOMAIN tokens : t # req[p].token => tokens'[t] = tokens[t]
               /\ votes' = votes
          /\ (pc'[p] # pc[p] /\ tokens' # tokens) => VoteSaveToken(p)]_vars

\* a vote accepted in an invitation-only election while another election
\* holds a token, which stays unused
C20_Witness ==
    /\ response.kind = "vote"
    /\ response.code = HTTP_201_CREATED
    /\ elections[response.request.election].on_invitation_only
    /\ tokens[response.request.token].used
    /\ \E t \in DOMAIN tokens :
          tokens[t].election # response.request.election /\ ~tokens[t].used

====
